---------------------------- MODULE Spec2Model ----------------------------
(* A model of the chunking parsers of textract-chunking:                   *)
(*   parse_textract_layout_to_chunks (chunk.py) and                        *)
(*   parse_docx_to_chunks (docx_parser.py).                                *)
(*                                                                         *)
(* A Python string is a sequence of atoms: a word's text is one atom, and  *)
(* the literals the code concatenates (" ", "| ", " | ", " |", "---",     *)
(* "\n") are one atom each, so that joining is the concatenation the code  *)
(* performs and a rendered text can be split again at its separators.      *)
(* A block is a record; an absent key is a flag (HasRel) or the value      *)
(* NoPage.  BoundingBox.Top is an integer in thousandths of page height.   *)
EXTENDS Integers, Sequences, FiniteSets, TLC

VARIABLES
    blocks,             \* textract_response['Blocks']         (chunk.py:22)
    doc,                \* the block items of the DOCX body    (docx_parser.py:43)
    pc,                 \* position in the running parser
    i,                  \* index of the loop the parser is in
    chunks,             \* chunks                              (chunk.py:25)
    consumed_word_ids,  \* consumed_word_ids                   (chunk.py:26)
    current_text,       \* current_text                        (chunk.py:120)
    last_top,           \* last_top                            (chunk.py:121)
    current_page        \* current_page                        (chunk.py:122)

vars == <<blocks, doc, pc, i, chunks, consumed_word_ids,
          current_text, last_top, current_page>>

-----------------------------------------------------------------------------
(* Bounds of the inputs.                                                   *)
MaxRow == 2
MaxCol == 2
MaxLines == 3
MaxDocxRows == 2
MaxDocxCols == 2

(* Program constants.                                                      *)
NoPage == 0           \* block.get('Page') of a block without 'Page'
DefaultPage == 1      \* block.get('Page', 1); current_page = 1
GapThreshold == 50    \* 0.05 of the page height, in thousandths
InitialTop == 0       \* last_top = 0

Max(S) == CHOOSE x \in S : \A y \in S : y <= x
Abs(x) == IF x < 0 THEN -x ELSE x
Range(s) == {s[k] : k \in DOMAIN s}

-----------------------------------------------------------------------------
(* Strings.                                                                *)

RECURSIVE Concat(_)
Concat(ss) == IF ss = <<>> THEN <<>> ELSE ss[1] \o Concat(Tail(ss))

\* sep.join(parts)
RECURSIVE Join(_, _)
Join(parts, sep) ==
    IF parts = <<>> THEN <<>>
    ELSE IF Len(parts) = 1 THEN parts[1]
    ELSE parts[1] \o <<sep>> \o Join(Tail(parts), sep)

Whitespace == {" ", "\n"}

\* s.strip()
RECURSIVE LStrip(_)
LStrip(s) == IF s # <<>> /\ s[1] \in Whitespace THEN LStrip(Tail(s)) ELSE s
RECURSIVE RStrip(_)
RStrip(s) ==
    IF s # <<>> /\ s[Len(s)] \in Whitespace
    THEN RStrip(SubSeq(s, 1, Len(s) - 1)) ELSE s
Strip(s) == RStrip(LStrip(s))

\* s.replace('\n', ' ')
ReplaceNewline(s) == [k \in DOMAIN s |-> IF s[k] = "\n" THEN " " ELSE s[k]]

\* s.split(sep), for a separator of one atom
RECURSIVE Split(_, _)
Split(s, sep) ==
    IF \A k \in DOMAIN s : s[k] # sep THEN <<s>>
    ELSE LET p == CHOOSE k \in DOMAIN s :
                      s[k] = sep /\ \A j \in 1..(k - 1) : s[j] # sep
         IN  <<SubSeq(s, 1, p - 1)>> \o Split(SubSeq(s, p + 1, Len(s)), sep)

-----------------------------------------------------------------------------
(* Blocks and the block map.                                               *)

IsChild(rel) == rel.Type = "CHILD"

HasId(id) == \E k \in DOMAIN blocks : blocks[k].Id = id

\* block_map[id]: of two blocks with one Id the dict keeps the later one
block_map(id) ==
    blocks[Max({k \in DOMAIN blocks : blocks[k].Id = id})]

\* the Ids of every CHILD relationship of a block, in order
ChildIds(b) ==
    IF b.HasRel
    THEN LET rels == SelectSeq(b.Rels, IsChild)
         IN  Concat([k \in DOMAIN rels |-> rels[k].Ids])
    ELSE <<>>

\* the Ids of every relationship of a block, whatever its Type
AllRelIds(b) == Concat([k \in DOMAIN b.Rels |-> b.Rels[k].Ids])


-----------------------------------------------------------------------------
(* Step A: tables (chunk.py:29-71).                                        *)

DocumentId == "test-doc"

\* block.get('Page', 1)
PageOf(b) == IF b.Page = NoPage THEN DefaultPage ELSE b.Page

\* the Ids of the first CHILD relationship: [...][0] (chunk.py:33)
cell_ids(b) == SelectSeq(b.Rels, IsChild)[1].Ids

\* block_map[wid]['BlockType'] == 'WORD' (chunk.py:43)
IsWordId(wid) == HasId(wid) /\ block_map(wid).BlockType = "WORD"

\* the WORD children of a cell, over all its CHILD relationships
CellWordIds(cell) == SelectSeq(ChildIds(cell), IsWordId)

cell_text_words(cell) ==
    [k \in DOMAIN CellWordIds(cell) |-> block_map(CellWordIds(cell)[k]).Text]

\* a lookup of the words that forgives an absent Id: block_map.get(wid)
CellRaisesForgivingWords(cell_id) == ~HasId(cell_id)

\* block_map[cell_id] and block_map[wid] raise KeyError on an absent Id
CellRaises(cell_id) ==
    \/ ~HasId(cell_id)
    \/ \E wid \in Range(ChildIds(block_map(cell_id))) : ~HasId(wid)

\* [...][0] raises IndexError when the list of CHILD relationships is empty
TableRaises(b) ==
    \/ SelectSeq(b.Rels, IsChild) = <<>>
    \/ \E cell_id \in Range(cell_ids(b)) : CellRaises(cell_id)

cells_data(b) ==
    [k \in DOMAIN cell_ids(b) |->
        LET cell == block_map(cell_ids(b)[k])
        IN  [r |-> cell.RowIndex, c |-> cell.ColumnIndex,
             text |-> Join(cell_text_words(cell), " ")]]

\* the word ids a table adds to consumed_word_ids
TableConsumed(b) ==
    UNION {Range(CellWordIds(block_map(cell_id))) : cell_id \in Range(cell_ids(b))}

\* the grid with the row and column index of a cell swapped: grid[c-1][r-1]
BuildGridSwapped(cd) ==
    LET max_row == Max({cd[k].r : k \in DOMAIN cd})
        max_col == Max({cd[k].c : k \in DOMAIN cd})
    IN  [r \in 1..max_row |->
            [c \in 1..max_col |->
                LET ks == {k \in DOMAIN cd : cd[k].r = c /\ cd[k].c = r}
                IN  IF ks = {} THEN <<>> ELSE cd[Max(ks)].text]]

\* grid = [['' ...]]; for c in cells_data: grid[r-1][c-1] = text
BuildGrid(cd) ==
    LET max_row == Max({cd[k].r : k \in DOMAIN cd})
        max_col == Max({cd[k].c : k \in DOMAIN cd})
    IN  [r \in 1..max_row |->
            [c \in 1..max_col |->
                LET ks == {k \in DOMAIN cd : cd[k].r = r /\ cd[k].c = c}
                IN  IF ks = {} THEN <<>> ELSE cd[Max(ks)].text]]

\* "| " + " | ".join(row) + " |"
MdRow(row) == <<"| ">> \o Join(row, " | ") \o <<" |">>

Separator(n) == MdRow([c \in 1..n |-> <<"---">>])

\* md_lines of a rectangular grid, joined with "\n" (chunk.py:61-65)
RenderGrid(grid) ==
    Join(<<MdRow(grid[1]), Separator(Len(grid[1]))>>
            \o [k \in 1..(Len(grid) - 1) |-> MdRow(grid[k + 1])],
         "\n")

\* a chunk put at the head of the list: chunks.insert(0, ...)
EmitFirst(cs, c) == <<c>> \o cs

\* chunks.append(...)
Emit(cs, c) == Append(cs, c)

TableChunk(b) ==
    [text |-> RenderGrid(BuildGrid(cells_data(b))),
     document_id |-> DocumentId, page |-> PageOf(b), type |-> "table"]

TableStep ==
    /\ pc = "tables"
    /\ i <= Len(blocks)
    /\ LET block == blocks[i] IN
       IF block.BlockType # "TABLE" \/ ~block.HasRel
       THEN /\ i' = i + 1
            /\ UNCHANGED <<pc, chunks, consumed_word_ids>>
       ELSE IF TableRaises(block)
       THEN /\ pc' = "raised"
            /\ UNCHANGED <<i, chunks, consumed_word_ids>>
       ELSE /\ i' = i + 1
            /\ consumed_word_ids' = consumed_word_ids \cup TableConsumed(block)
            /\ chunks' = IF cells_data(block) = <<>> THEN chunks
                         ELSE Emit(chunks, TableChunk(block))
            /\ UNCHANGED pc
    /\ UNCHANGED <<blocks, doc, current_text, last_top, current_page>>

-----------------------------------------------------------------------------
(* Step B: layout text (chunk.py:74-116).                                  *)

layout_content_types ==
    {"LAYOUT_TITLE", "LAYOUT_HEADER", "LAYOUT_SECTION_HEADER",
     "LAYOUT_TEXT", "LAYOUT_LIST"}

IsLayout(b) == b.BlockType \in layout_content_types

layout_blocks == SelectSeq(blocks, IsLayout)

\* block['BlockType'].lower()
Lower(t) ==
    CASE t = "LAYOUT_TITLE" -> "layout_title"
      [] t = "LAYOUT_HEADER" -> "layout_header"
      [] t = "LAYOUT_SECTION_HEADER" -> "layout_section_header"
      [] t = "LAYOUT_TEXT" -> "layout_text"
      [] t = "LAYOUT_LIST" -> "layout_list"

\* child = block_map.get(child_id); child and child['BlockType'] == 'LINE'
IsLineId(id) == HasId(id) /\ block_map(id).BlockType = "LINE"

block_lines(b) == SelectSeq(ChildIds(b), IsLineId)

\* every wid the loops of chunk.py:92-96 visit, in order
LayoutWordIds(b) ==
    Concat([k \in DOMAIN block_lines(b) |-> ChildIds(block_map(block_lines(b)[k]))])

IsConsumed(wid) == wid \in consumed_word_ids

\* wid not in consumed_word_ids, and block_map.get(wid) (chunk.py:98-100)
IsTextPart(wid) == ~IsConsumed(wid) /\ HasId(wid)

consumed_count(wids) == Cardinality({k \in DOMAIN wids : IsConsumed(wids[k])})

block_text_parts(b) ==
    LET kept == SelectSeq(LayoutWordIds(b), IsTextPart)
    IN  [k \in DOMAIN kept |-> block_map(kept[k]).Text]

\* a threshold that also drops a block at exactly one half
SuppressedFromHalf(total, consumed) == total > 0 /\ 2 * consumed >= total

\* total_words > 0 and consumed_count / total_words > 0.5   (chunk.py:104)
\* sum(...) > len(wids) / 2                                   (chunk.py:129)
Suppressed(total, consumed) == total > 0 /\ 2 * consumed > total

LayoutChunk(b) ==
    [text |-> Join(block_text_parts(b), " "),
     document_id |-> DocumentId, page |-> PageOf(b), type |-> Lower(b.BlockType)]

LayoutStep ==
    /\ pc = "layout"
    /\ i <= Len(layout_blocks)
    /\ LET block == layout_blocks[i]
           wids == LayoutWordIds(block)
       IN  chunks' =
              IF Suppressed(Len(wids), consumed_count(wids)) THEN chunks
              ELSE IF Strip(LayoutChunk(block).text) = <<>> THEN chunks
              ELSE Emit(chunks, LayoutChunk(block))
    /\ i' = i + 1
    /\ UNCHANGED <<blocks, doc, pc, consumed_word_ids,
                   current_text, last_top, current_page>>

-----------------------------------------------------------------------------
(* Step C: fallback over the raw lines (chunk.py:119-146).                 *)

\* the deduplication check of a LINE (chunk.py:127-130)
LineSuppressed(b) ==
    /\ b.HasRel
    /\ Suppressed(Len(AllRelIds(b)), consumed_count(AllRelIds(b)))

\* a break that looks at the vertical gap alone
ParagraphBreakByGap(b) == Abs(b.Top - last_top) > GapThreshold

\* abs(top - last_top) > 0.05 or block.get('Page') != current_page
ParagraphBreak(b) ==
    \/ Abs(b.Top - last_top) > GapThreshold
    \/ b.Page # current_page

TextBlockChunk ==
    [text |-> Join(current_text, " "),
     document_id |-> DocumentId, page |-> current_page, type |-> "text_block"]

FallbackStep ==
    /\ pc = "fallback"
    /\ i <= Len(blocks)
    /\ LET block == blocks[i] IN
       IF block.BlockType # "LINE" \/ LineSuppressed(block)
       THEN UNCHANGED <<chunks, current_text, last_top, current_page>>
       ELSE LET flush == current_text # <<>> /\ ParagraphBreak(block) IN
            /\ chunks' = IF flush THEN Emit(chunks, TextBlockChunk) ELSE chunks
            /\ current_text' = Append(IF flush THEN <<>> ELSE current_text, block.Text)
            /\ last_top' = block.Top
            /\ current_page' = PageOf(block)
    /\ i' = i + 1
    /\ UNCHANGED <<blocks, doc, pc, consumed_word_ids>>

\* the end of Step A: the choice of Step B or Step C (chunk.py:74-77, 119-122)
TablesDone ==
    /\ pc = "tables"
    /\ i > Len(blocks)
    /\ pc' = IF layout_blocks # <<>> THEN "layout" ELSE "fallback"
    /\ i' = 1
    /\ current_text' = <<>>
    /\ last_top' = InitialTop
    /\ current_page' = DefaultPage
    /\ UNCHANGED <<blocks, doc, chunks, consumed_word_ids>>

\* the end of Step B: return chunks
LayoutDone ==
    /\ pc = "layout"
    /\ i > Len(layout_blocks)
    /\ pc' = "done"
    /\ UNCHANGED <<blocks, doc, i, chunks, consumed_word_ids,
                   current_text, last_top, current_page>>

\* the end of Step C: the last flush, and return chunks (chunk.py:145-148)
FallbackDone ==
    /\ pc = "fallback"
    /\ i > Len(blocks)
    /\ chunks' = IF current_text # <<>> THEN Emit(chunks, TextBlockChunk) ELSE chunks
    /\ pc' = "done"
    /\ UNCHANGED <<blocks, doc, i, consumed_word_ids,
                   current_text, last_top, current_page>>

-----------------------------------------------------------------------------
(* Inputs: block lists of the shape Textract returns.                      *)

Blk(id, type) ==
    [Id |-> id, BlockType |-> type, HasRel |-> FALSE, Rels |-> <<>>,
     Text |-> <<>>, Page |-> NoPage, Top |-> InitialTop,
     RowIndex |-> 0, ColumnIndex |-> 0, RowSpan |-> 1, ColumnSpan |-> 1]

Rel(type, ids) == [Type |-> type, Ids |-> ids]

WithRels(b, rels) == [b EXCEPT !.HasRel = TRUE, !.Rels = rels]

WordId(n) == <<"word", n>>

\* words 1..3 carry the texts of test_chunk_logic.py:48-50
WordText(n) ==
    CASE n = 1 -> "Header"
      [] n = 2 -> "A"
      [] n = 3 -> "B"
      [] OTHER -> "w" \o ToString(n)

Word(n) == [Blk(WordId(n), "WORD") EXCEPT !.Text = <<WordText(n)>>]

WordIds(ns) == [k \in DOMAIN ns |-> WordId(ns[k])]

\* an Id that no block of the list has
MissingId == <<"missing", 1>>

Cell(id, r, c, rs, cs, ns) ==
    LET b == [Blk(id, "CELL") EXCEPT !.RowIndex = r, !.ColumnIndex = c,
                                     !.RowSpan = rs, !.ColumnSpan = cs]
    IN  IF ns = <<>> THEN b ELSE WithRels(b, <<Rel("CHILD", WordIds(ns))>>)

\* a LINE: its Text is the text of its words, joined by spaces
LineText(ns) == Join([k \in DOMAIN ns |-> <<WordText(ns[k])>>], " ")

Line(id, ns, page, top) ==
    LET b == [Blk(id, "LINE") EXCEPT !.Text = LineText(ns), !.Page = page, !.Top = top]
    IN  IF ns = <<>> THEN b ELSE WithRels(b, <<Rel("CHILD", WordIds(ns))>>)

\* the mock response of test_merged_cells (test_chunk_logic.py:9-52)
TestBlocks ==
    << WithRels(Blk(<<"table", 1>>, "TABLE"),
                <<Rel("CHILD", <<<<"cell", 1>>, <<"cell", 2>>, <<"cell", 3>>>>)>>),
       Cell(<<"cell", 1>>, 1, 1, 1, 2, <<1>>),
       Cell(<<"cell", 2>>, 2, 1, 1, 1, <<2>>),
       Cell(<<"cell", 3>>, 2, 2, 1, 1, <<3>>),
       Word(1), Word(2), Word(3) >>

\* all sequences over S of length 0..n
SeqsUpTo(S, n) == UNION {[1..m -> S] : m \in 0..n}

\* the elements of a set of integers, ascending
RECURSIVE Sorted(_)
Sorted(S) ==
    IF S = {} THEN <<>>
    ELSE LET m == CHOOSE x \in S : \A y \in S : x <= y
         IN  <<m>> \o Sorted(S \ {m})

(* Grid inputs: one table whose cells occupy any non-empty set of the      *)
(* positions of a MaxRow x MaxCol grid.  Position (r, c) has the number    *)
(* (r-1)*MaxCol + c, which is also the number of its word.                 *)
PosRow(p) == ((p - 1) \div MaxCol) + 1
PosCol(p) == ((p - 1) % MaxCol) + 1
Positions == 1..(MaxRow * MaxCol)
GridVariants == {"plain", "two_words", "no_words", "spans", "reversed"}

\* a merged cell spans into the neighbouring position no cell occupies
SpanRight(S, p) == PosCol(p) < MaxCol /\ (p + 1) \notin S
SpanDown(S, p) == PosRow(p) < MaxRow /\ (p + MaxCol) \notin S

GridCell(S, v, p) ==
    LET first == p = Sorted(S)[1]
        ns == IF v = "no_words" /\ first THEN <<>>
              ELSE IF v = "two_words" /\ first THEN <<p, p + MaxRow * MaxCol>>
              ELSE <<p>>
    IN  Cell(<<"cell", p>>, PosRow(p), PosCol(p),
             IF v = "spans" /\ SpanDown(S, p) /\ ~SpanRight(S, p) THEN 2 ELSE 1,
             IF v = "spans" /\ SpanRight(S, p) THEN 2 ELSE 1,
             ns)

Reverse(s) == [k \in DOMAIN s |-> s[Len(s) + 1 - k]]

GridBlocks(S, v) ==
    LET ps == IF v = "reversed" THEN Reverse(Sorted(S)) ELSE Sorted(S)
        rows == Sorted({PosRow(p) : p \in S})
        page == IF v = "plain" THEN NoPage ELSE 2
        ws == Sorted(S \cup {Sorted(S)[1] + MaxRow * MaxCol})
    IN  << [WithRels(Blk(<<"table", 1>>, "TABLE"),
                     <<Rel("CHILD", [k \in DOMAIN ps |-> <<"cell", ps[k]>>])>>)
              EXCEPT !.Page = page] >>
        \o [k \in DOMAIN ps |-> GridCell(S, v, ps[k])]
        \o [k \in DOMAIN ws |-> Word(ws[k])]
        \o [k \in DOMAIN rows |->
               Line(<<"line", rows[k]>>,
                    Sorted({p \in S : PosRow(p) = rows[k]}), page, 100 * rows[k])]

GridInputs == {GridBlocks(S, v) : S \in (SUBSET Positions) \ {{}}, v \in GridVariants}


(* The table the text inputs share: one cell holding words 1 and 2, which  *)
(* the table consumes.                                                     *)
BaseBlocks ==
    << WithRels(Blk(<<"table", 1>>, "TABLE"), <<Rel("CHILD", <<<<"cell", 1>>>>)>>),
       Cell(<<"cell", 1>>, 1, 1, 1, 1, <<1, 2>>),
       Word(1), Word(2) >>

(* Fallback inputs: up to MaxLines LINE blocks after the table.  Line k    *)
(* holds its own word 10+k, alone ("fresh"), after word 1 ("half"), after  *)
(* words 1 and 2 ("majority"), or without Relationships ("bare").          *)
LineKinds == {"fresh", "half", "majority", "bare"}
Tops == {100, 150, 151}
Pages == {NoPage, 1, 2}

LineOptions ==
    {o \in [kind : LineKinds, top : Tops, page : Pages] :
        IF o.kind = "fresh" THEN o.page # 2 \/ o.top = 100
        ELSE o.top = 150 /\ o.page = 1}

FallbackLine(k, o) ==
    LET own == 10 + k
        b == Line(<<"line", k>>,
                  CASE o.kind = "half" -> <<1, own>>
                    [] o.kind = "majority" -> <<1, 2, own>>
                    [] OTHER -> <<own>>,
                  o.page, o.top)
    IN  IF o.kind = "bare" THEN [b EXCEPT !.HasRel = FALSE, !.Rels = <<>>] ELSE b

FallbackBlocks(os) ==
    BaseBlocks
    \o [k \in DOMAIN os |-> Word(10 + k)]
    \o [k \in DOMAIN os |-> FallbackLine(k, os[k])]

FallbackInputs == {FallbackBlocks(os) : os \in SeqsUpTo(LineOptions, MaxLines)}

(* Layout inputs: one LAYOUT_TEXT block over one or two lines, each of up  *)
(* to MaxLineWords words drawn from word 1 (consumed) and word 4 (in no    *)
(* table);                                                                 *)
(* "dangling" adds a reference to an absent LINE and to an absent WORD.    *)
MaxLineWords == 2
LayoutLineWords == SeqsUpTo({1, 4}, MaxLineWords)

LayoutLine(k, ns, dangling) ==
    LET b == [Blk(<<"line", k>>, "LINE") EXCEPT
                 !.Text = LineText(ns), !.Page = 1, !.Top = 100 * k]
        ids == WordIds(ns) \o (IF dangling /\ k = 1 THEN <<MissingId>> ELSE <<>>)
    IN  IF ids = <<>> THEN b ELSE WithRels(b, <<Rel("CHILD", ids)>>)

LayoutBlocks(ls, dangling, page) ==
    BaseBlocks
    \o << Word(4) >>
    \o << [WithRels(Blk(<<"layout", 1>>, "LAYOUT_TEXT"),
                    <<Rel("CHILD",
                          (IF dangling THEN <<MissingId>> ELSE <<>>)
                          \o [k \in DOMAIN ls |-> <<"line", k>>])>>)
             EXCEPT !.Page = page] >>
    \o [k \in DOMAIN ls |-> LayoutLine(k, ls[k], dangling)]

LayoutInputs ==
    {LayoutBlocks(ls, dangling, page) :
        ls \in [1..1 -> LayoutLineWords] \cup [1..2 -> LayoutLineWords],
        dangling \in BOOLEAN, page \in {NoPage, 2}}

(* Mixed inputs: up to MaxItems tables, layout blocks and lines in any     *)
(* order.  The item at position k has the number k in its Id, its page and *)
(* its words: table k holds word k, text item k holds word 10+k.           *)
MaxItems == 3
ItemKinds ==
    {"table", "table_no_relationships", "table_no_child", "table_no_cells",
     "table_missing_cell", "table_missing_word", "layout", "layout_empty", "line"}

LayoutTypeOf(k) ==
    CASE k % 5 = 1 -> "LAYOUT_TITLE"
      [] k % 5 = 2 -> "LAYOUT_HEADER"
      [] k % 5 = 3 -> "LAYOUT_SECTION_HEADER"
      [] k % 5 = 4 -> "LAYOUT_TEXT"
      [] OTHER -> "LAYOUT_LIST"

ItemBlock(k, kind) ==
    LET table == [Blk(<<"table", k>>, "TABLE") EXCEPT !.Page = k]
        layout == [Blk(<<"layout", k>>, LayoutTypeOf(k)) EXCEPT !.Page = k]
    IN  CASE kind = "table" ->
               WithRels(table, <<Rel("MERGED_CELL", <<>>),
                                 Rel("CHILD", <<<<"cell", k>>>>)>>)
          [] kind = "table_no_relationships" -> table
          [] kind = "table_no_child" ->
               WithRels(table, <<Rel("MERGED_CELL", <<<<"cell", k>>>>)>>)
          [] kind = "table_no_cells" -> WithRels(table, <<Rel("CHILD", <<>>)>>)
          [] kind = "table_missing_cell" ->
               WithRels(table, <<Rel("CHILD", <<<<"cell", k>>, MissingId>>)>>)
          [] kind = "table_missing_word" ->
               WithRels(table, <<Rel("CHILD", <<<<"badcell", k>>>>)>>)
          [] kind = "layout" ->
               WithRels(layout, <<Rel("CHILD", <<<<"layoutline", k>>>>)>>)
          [] kind = "layout_empty" -> layout
          [] OTHER -> Line(<<"line", k>>, <<10 + k>>, 1, 100 * k)

\* the blocks an item refers to
ItemChildren(k, kind) ==
    CASE kind \in {"table", "table_no_child", "table_missing_cell"} ->
           <<Cell(<<"cell", k>>, 1, 1, 1, 1, <<k>>), Word(k)>>
      [] kind = "table_missing_word" ->
           <<WithRels(Cell(<<"badcell", k>>, 1, 1, 1, 1, <<>>),
                      <<Rel("CHILD", <<WordId(k), MissingId>>)>>),
             Word(k)>>
      [] kind = "layout" ->
           <<Line(<<"layoutline", k>>, <<10 + k>>, k, 100 * k), Word(10 + k)>>
      [] kind = "line" -> <<Word(10 + k)>>
      [] OTHER -> <<>>

MixedBlocks(kinds) ==
    [k \in DOMAIN kinds |-> ItemBlock(k, kinds[k])]
    \o Concat([k \in DOMAIN kinds |-> ItemChildren(k, kinds[k])])

MixedInputs == {MixedBlocks(kinds) : kinds \in SeqsUpTo(ItemKinds, MaxItems)}

Inputs ==
    {TestBlocks} \cup GridInputs \cup FallbackInputs \cup LayoutInputs \cup MixedInputs

-----------------------------------------------------------------------------
(* parse_docx_to_chunks (docx_parser.py:43-102).  A block item of the body *)
(* is a paragraph with its text or a table with the texts of the cells of  *)
(* its rows.                                                               *)

\* cell.text.strip().replace('\n', ' ') for cell in row.cells
row_data(row) == [c \in DOMAIN row |-> ReplaceNewline(Strip(row[c]))]

grid_data(rows) == [r \in DOMAIN rows |-> row_data(rows[r])]

\* a row left at its own width
PadRowNot(r, max_cols) == r

\* r + [''] * (max_cols - len(r))
PadRow(r, max_cols) == r \o [c \in 1..(max_cols - Len(r)) |-> <<>>]

\* md_lines of a ragged grid, joined with "\n" (docx_parser.py:81-95)
RenderRagged(g) ==
    LET max_cols == Max({Len(g[r]) : r \in DOMAIN g})
    IN  Join(<<MdRow(PadRow(g[1], max_cols)), Separator(max_cols)>>
                \o [k \in 1..(Len(g) - 1) |-> MdRow(PadRow(g[k + 1], max_cols))],
             "\n")

DocxStep ==
    /\ pc = "docx"
    /\ i <= Len(doc)
    /\ LET block == doc[i] IN
       chunks' =
          IF block.kind = "paragraph"
          THEN IF Strip(block.text) = <<>> THEN chunks
               ELSE Append(chunks, [text |-> Strip(block.text),
                                    document_id |-> DocumentId,
                                    page |-> NoPage, type |-> "text_block"])
          ELSE IF block.rows = <<>> THEN chunks
               ELSE Append(chunks, [text |-> RenderRagged(grid_data(block.rows)),
                                    document_id |-> DocumentId,
                                    page |-> NoPage, type |-> "table"])
    /\ i' = i + 1
    /\ UNCHANGED <<blocks, doc, pc, consumed_word_ids,
                   current_text, last_top, current_page>>

\* return chunks (docx_parser.py:102)
DocxDone ==
    /\ pc = "docx"
    /\ i > Len(doc)
    /\ pc' = "done"
    /\ UNCHANGED <<blocks, doc, i, chunks, consumed_word_ids,
                   current_text, last_top, current_page>>

(* DOCX inputs: a paragraph, a table of up to MaxDocxRows rows of 1 to     *)
(* MaxDocxCols cells, and a closing paragraph; the paragraph varies before *)
(* a table of one cell, the table after a plain paragraph.  The cell at    *)
(* (r, c) is                                                               *)
(* empty or holds its own text; in a "messy" table the text comes with     *)
(* surrounding blanks and an inner line break.                             *)
Paragraph(text) == [kind |-> "paragraph", text |-> text, rows |-> <<>>]

Table(rows) == [kind |-> "table", text |-> <<>>, rows |-> rows]

ParagraphTexts == {<<>>, <<" ">>, <<"P">>, <<" ", "P", " ", "Q", "\n">>}

DocxCellText(r, c, filled, messy) ==
    LET name == "r" \o ToString(r) \o "c" \o ToString(c)
    IN  IF ~filled THEN (IF messy THEN <<" ">> ELSE <<>>)
        ELSE IF messy THEN <<" ", name, "\n", "x", "\n">>
        ELSE <<name>>

DocxRowShapes == UNION {[1..w -> BOOLEAN] : w \in 1..MaxDocxCols}

DocxTable(shapes, messy) ==
    Table([r \in DOMAIN shapes |->
              [c \in DOMAIN shapes[r] |-> DocxCellText(r, c, shapes[r][c], messy)]])

DocxInputs ==
    {<<Paragraph(t), DocxTable(shapes, messy), Paragraph(<<"End">>)>> :
        t \in {<<"P">>}, shapes \in SeqsUpTo(DocxRowShapes, MaxDocxRows), messy \in BOOLEAN}
    \cup
    {<<Paragraph(t), DocxTable(<<<<TRUE>>>>, FALSE), Paragraph(<<"End">>)>> :
        t \in ParagraphTexts}

-----------------------------------------------------------------------------
(* One call of either parser.                                              *)

Init ==
    /\ \/ blocks \in Inputs /\ doc = <<>> /\ pc = "tables"
       \/ blocks = <<>> /\ doc \in DocxInputs /\ pc = "docx"
    /\ i = 1
    /\ chunks = <<>>
    /\ consumed_word_ids = {}
    /\ current_text = <<>>
    /\ last_top = InitialTop
    /\ current_page = DefaultPage

Next ==
    \/ TableStep
    \/ TablesDone
    \/ LayoutStep
    \/ LayoutDone
    \/ FallbackStep
    \/ FallbackDone
    \/ DocxStep
    \/ DocxDone

Spec == Init /\ [][Next]_vars

-----------------------------------------------------------------------------
(* What the claims observe.                                                *)

IsTableChunk(c) == c.type = "table"
IsTextChunk(c) == c.type # "table"
TableChunks == SelectSeq(chunks, IsTableChunk)
TextChunks == SelectSeq(chunks, IsTextChunk)

\* the cells of one rendered line: "| a | b |" gives <<a, b>>
LineCells(line) == Split(SubSeq(line, 2, Len(line) - 1), " | ")

WellFormedLine(line) ==
    Len(line) >= 2 /\ line[1] = "| " /\ line[Len(line)] = " |"

\* the rendered lines of a table text; data row r is line 1 or line r + 1
TableLines(text) == Split(text, "\n")
DataRow(text, r) == LineCells(TableLines(text)[IF r = 1 THEN 1 ELSE r + 1])

\* the Ids of the first CHILD relationship of a block, none if it has none
FirstChildIds(b) ==
    LET rels == SelectSeq(b.Rels, IsChild)
    IN  IF b.HasRel /\ rels # <<>> THEN rels[1].Ids ELSE <<>>

HasCells(b) == b.BlockType = "TABLE" /\ FirstChildIds(b) # <<>>

\* the TABLE blocks with at least one cell, in input order
TablesWithCells == SelectSeq(blocks, HasCells)

CellsOf(table) == {block_map(id) : id \in Range(FirstChildIds(table))}

Returned == pc = "done" /\ blocks # <<>>

C2_MergedCellReplication ==
    Returned =>
        /\ \A k \in DOMAIN TablesWithCells :
              k <= Len(TableChunks) =>
              \A cell \in CellsOf(TablesWithCells[k]) :
              \A dr \in 0..(cell.RowSpan - 1), dc \in 0..(cell.ColumnSpan - 1) :
                  LET text == TableChunks[k].text
                      r == cell.RowIndex + dr
                      c == cell.ColumnIndex + dc
                  IN  /\ r + 1 <= Len(TableLines(text))
                      /\ c <= Len(DataRow(text, r))
                      /\ DataRow(text, r)[c] = Join(cell_text_words(cell), " ")
        /\ blocks = TestBlocks =>
              /\ TableLines(chunks[1].text)[1] = <<"| ", "Header", " | ", "Header", " |">>
              /\ TableLines(chunks[1].text)[3] = <<"| ", "A", " | ", "B", " |">>

(* C7: a rendered grid has one line per row and a separator line after the *)
(* first; every line has W cells, W the greatest row width: row i is its   *)
(* own cells in order followed by empty cells, the separator is W cells    *)
(* '---'.                                                                  *)
PaddingLaw(text, g) ==
    LET lines == TableLines(text)
        W == Max({Len(g[r]) : r \in DOMAIN g})
    IN  /\ Len(lines) = Len(g) + 1
        /\ \A n \in DOMAIN lines :
              WellFormedLine(lines[n]) /\ Len(LineCells(lines[n])) = W
        /\ LineCells(lines[2]) = [c \in 1..W |-> <<"---">>]
        /\ \A r \in DOMAIN g :
              /\ SubSeq(DataRow(text, r), 1, Len(g[r])) = g[r]
              /\ \A c \in (Len(g[r]) + 1)..W : DataRow(text, r)[c] = <<>>

IsDocxTable(block) == block.kind = "table" /\ block.rows # <<>>
DocxTables == SelectSeq(doc, IsDocxTable)

C7_PaddingLaw ==
    pc = "done" =>
        /\ doc # <<>> =>
              /\ Len(TableChunks) = Len(DocxTables)
              /\ \A k \in DOMAIN DocxTables :
                    PaddingLaw(TableChunks[k].text, grid_data(DocxTables[k].rows))
        /\ blocks # <<>> =>
              /\ Len(TableChunks) = Len(TablesWithCells)
              /\ \A k \in DOMAIN TablesWithCells :
                    PaddingLaw(TableChunks[k].text,
                               BuildGrid(cells_data(TablesWithCells[k])))

\* a ragged table of the DOCX parser has been rendered
C7_Witness ==
    /\ pc = "done"
    /\ Len(DocxTables) = 1
    /\ Len(TableChunks) = 1
    /\ \E r1, r2 \in DOMAIN DocxTables[1].rows :
          Len(DocxTables[1].rows[r1]) < Len(DocxTables[1].rows[r2])


(* C1: when the parser returns, no WORD whose Id is in consumed_word_ids   *)
(* has its text in a chunk that is not a table (the texts of the WORD      *)
(* blocks of an input are pairwise different).                             *)
C1_ConsumedWordsNeverInText ==
    Returned =>
        \A k \in DOMAIN blocks :
            (blocks[k].BlockType = "WORD" /\ blocks[k].Id \in consumed_word_ids) =>
                \A n \in DOMAIN TextChunks :
                    Range(blocks[k].Text) \cap Range(TextChunks[n].text) = {}

(* C3: a TABLE without child cells (no Relationships, no CHILD             *)
(* relationship, or a CHILD relationship without Ids) raises no error and  *)
(* gives no chunk.                                                         *)
NoChildCells(b) == b.BlockType = "TABLE" /\ FirstChildIds(b) = <<>>

C3_EmptyTableSkip ==
    /\ pc = "raised" => ~NoChildCells(blocks[i])
    /\ Returned => Len(TableChunks) = Len(TablesWithCells)

(* C4: in the fallback path two consecutive kept lines of one page (both   *)
(* without Page included) are in different chunks if their Tops differ by  *)
(* more than 0.05 and in one chunk otherwise.                              *)
FallbackPath == layout_blocks = <<>>

IsKeptLine(b) == b.BlockType = "LINE" /\ ~LineSuppressed(b)

KeptLines == SelectSeq(blocks, IsKeptLine)

\* the last atom of a line's Text is the text of a word no other line has
OwnAtom(b) == b.Text[Len(b.Text)]

ChunksWith(b) == {n \in DOMAIN TextChunks : OwnAtom(b) \in Range(TextChunks[n].text)}

C4_FallbackParagraphBreak ==
    (Returned /\ FallbackPath) =>
        \A k \in 1..(Len(KeptLines) - 1) :
            LET a == KeptLines[k]
                b == KeptLines[k + 1]
            IN  a.Page = b.Page =>
                   IF Abs(b.Top - a.Top) > GapThreshold
                   THEN ChunksWith(a) \cap ChunksWith(b) = {}
                   ELSE ChunksWith(a) \cap ChunksWith(b) # {}

(* C5: a layout block or a fallback line is dropped if and only if         *)
(* total > 0 and 2 * consumed > total, total the number of ids it          *)
(* references and consumed the number of them in consumed_word_ids; a      *)
(* block that is not dropped and has non-blank remaining text gives a      *)
(* chunk, a line that is not dropped enters the accumulator.               *)
C5_StrictThreshold ==
    [][ /\ (pc = "layout" /\ i <= Len(layout_blocks)) =>
              LET b == layout_blocks[i]
                  total == Len(LayoutWordIds(b))
                  consumed == consumed_count(LayoutWordIds(b))
                  dropped == total > 0 /\ 2 * consumed > total
                  text == Join(block_text_parts(b), " ")
              IN  IF dropped \/ Strip(text) = <<>>
                  THEN chunks' = chunks
                  ELSE /\ Len(chunks') = Len(chunks) + 1
                       /\ chunks'[Len(chunks')].text = text
        /\ (pc = "fallback" /\ i <= Len(blocks) /\ blocks[i].BlockType = "LINE") =>
              LET b == blocks[i]
                  total == Len(AllRelIds(b))
                  consumed == consumed_count(AllRelIds(b))
                  dropped == total > 0 /\ 2 * consumed > total
              IN  /\ dropped <=> (current_text' = current_text /\ chunks' = chunks)
                  /\ ~dropped => current_text'[Len(current_text')] = b.Text
      ]_vars

\* a layout block of which exactly half the words are consumed gave a chunk
C5_Witness ==
    /\ pc = "layout"
    /\ i = 2
    /\ Len(LayoutWordIds(layout_blocks[1])) = 2
    /\ consumed_count(LayoutWordIds(layout_blocks[1])) = 1
    /\ Len(TextChunks) = 1


(* C8: in the list parse_textract_layout_to_chunks builds, every table     *)
(* chunk precedes every other chunk; the table chunks are those of the     *)
(* TABLE blocks with cells, in input order; the text chunks are in the     *)
(* order of their layout blocks, or of their lines; and from the end of    *)
(* Step A on, all tables are done and consumed_word_ids holds every word   *)
(* of every table.                                                         *)
AllTableWords ==
    UNION {Range(CellWordIds(cell)) :
              cell \in UNION {CellsOf(TablesWithCells[k]) : k \in DOMAIN TablesWithCells}}

EmitsLayout(b) ==
    /\ ~(Len(LayoutWordIds(b)) > 0
            /\ 2 * consumed_count(LayoutWordIds(b)) > Len(LayoutWordIds(b)))
    /\ Strip(Join(block_text_parts(b), " ")) # <<>>

EmittingLayoutBlocks == SelectSeq(layout_blocks, EmitsLayout)

\* the positions in the input of the kept lines whose text is in text chunk n
LinesOf(n) ==
    {m \in DOMAIN blocks :
        IsKeptLine(blocks[m]) /\ OwnAtom(blocks[m]) \in Range(TextChunks[n].text)}

C8_OutputOrdering ==
    doc = <<>> =>
        /\ \A j, k \in DOMAIN chunks :
              (j < k /\ IsTableChunk(chunks[k])) => IsTableChunk(chunks[j])
        /\ pc = "tables" => TextChunks = <<>>
        /\ pc \in {"layout", "fallback", "done"} =>
              /\ consumed_word_ids = AllTableWords
              /\ TableChunks =
                    [k \in DOMAIN TablesWithCells |-> TableChunk(TablesWithCells[k])]
        /\ (pc = "done" /\ ~FallbackPath) =>
              TextChunks =
                  [k \in DOMAIN EmittingLayoutBlocks |-> LayoutChunk(EmittingLayoutBlocks[k])]
        /\ (pc = "done" /\ FallbackPath) =>
              /\ \A n \in DOMAIN TextChunks : LinesOf(n) # {}
              /\ \A n1, n2 \in DOMAIN TextChunks :
                    n1 < n2 => \A a \in LinesOf(n1), b \in LinesOf(n2) : a < b

\* text precedes a table in the input, and two tables and a text were emitted
C8_Witness ==
    /\ Returned
    /\ Len(TableChunks) >= 2
    /\ Len(TextChunks) >= 1
    /\ \E j, k \in DOMAIN blocks :
          /\ j < k
          /\ (IsLayout(blocks[j]) \/ blocks[j].BlockType = "LINE")
          /\ HasCells(blocks[k])

(* C9: whenever a relationship the parser follows (TABLE to CELL, CELL to  *)
(* WORD, LAYOUT to LINE, LINE to WORD) names an Id that no block has, the  *)
(* call raises and returns no chunks.                                      *)
DanglingInTable(b) ==
    /\ b.BlockType = "TABLE"
    /\ \E id \in Range(FirstChildIds(b)) :
          \/ ~HasId(id)
          \/ \E wid \in Range(ChildIds(block_map(id))) : ~HasId(wid)

DanglingInLayout(b) ==
    /\ IsLayout(b)
    /\ \E id \in Range(ChildIds(b)) :
          \/ ~HasId(id)
          \/ IsLineId(id) /\ \E wid \in Range(ChildIds(block_map(id))) : ~HasId(wid)

Segmented(cuts) ==
    LET K == KeptLines
        starts == IF K = <<>> THEN <<>> ELSE Sorted({1} \cup {k + 1 : k \in cuts})
    IN  /\ Len(TextChunks) = Len(starts)
        /\ \A j \in DOMAIN starts :
              LET s == starts[j]
                  e == IF j = Len(starts) THEN Len(K) ELSE starts[j + 1] - 1
              IN  /\ TextChunks[j].text = Join([m \in 1..(e - s + 1) |-> K[s + m - 1].Text], " ")
                  /\ TextChunks[j].type = "text_block"
                  /\ \A m \in s..e : PageOf(K[m]) = TextChunks[j].page

C10_FallbackConservation ==
    /\ []((Returned /\ FallbackPath) =>
             \E cuts \in SUBSET (1..(Len(KeptLines) - 1)) : Segmented(cuts))
    /\ [][(pc = "fallback" /\ i <= Len(blocks) /\ blocks[i].BlockType = "LINE"
              /\ LineSuppressed(blocks[i]))
            => UNCHANGED <<chunks, current_text, last_top, current_page>>]_vars

\* a suppressed line lies between two kept lines, which share a chunk
C10_Witness ==
    /\ Returned
    /\ FallbackPath
    /\ Len(KeptLines) = 2
    /\ Len(TextChunks) = 1
    /\ \E a, b, c \in DOMAIN blocks :
          /\ a < b /\ b < c
          /\ IsKeptLine(blocks[a]) /\ IsKeptLine(blocks[c])
          /\ blocks[b].BlockType = "LINE" /\ LineSuppressed(blocks[b])

=============================================================================
